---- MODULE Spec2Model ----
(***************************************************************************)
(* Model of brep2graph: build_incidence_arrays (incidence_arrays.py) and   *)
(* the simple_edge graph configuration (configurations.py), with the node   *)
(* table of features_from_body (features.py).                              *)
(*                                                                         *)
(* A coedge object is a pair <<e, o>>: an edge object e met under          *)
(* orientation o.  coedge.reversed_edge() flips o.  The entity mapper      *)
(* gives coedge objects dense ids in the order in which it met them        *)
(* (oriented_edge_map), and gives edge ids by the edge object alone        *)
(* (edge_index), except for an optional "skewed" edge whose reversed       *)
(* coedge is reported under another edge id: the case the assertion in     *)
(* line 81 of incidence_arrays.py guards against.                          *)
(***************************************************************************)
EXTENDS Naturals, Integers, Sequences, FiniteSets, TLC

\* Bound: the total number of coedges the wires of a body enumerate.
MaxUses == 3
\* Bound: the number of faces of a body.
NumFaces == 2
\* Bound: the rows of a feature matrix and the length of an incidence array
\* given to simple_edge directly.
MaxRows == 2

VARIABLES
    body,            \* the body: its wires and the face of each wire
    entity_mapper,   \* the entity mapper
    next_,           \* local next_ of build_incidence_arrays
    mate,            \* local mate
    coedge_to_edge,  \* local coedge_to_edge
    coedge_to_face,  \* local coedge_to_face
    pc,              \* position in build_incidence_arrays
    err,             \* the exception raised, "none" if none
    result,          \* the value returned, NoResult before the return
    features,        \* simple_edge: the shapes of face_features, edge_features, coedge_features
    incidence_arrays,\* simple_edge: the argument incidence_arrays
    apc,             \* position in simple_edge
    aerr,            \* the exception simple_edge raised, "none" if none
    graph            \* the value simple_edge returned, NoResult before the return

buildVars == <<body, entity_mapper, next_, mate, coedge_to_edge, coedge_to_face,
               pc, err, result>>
asmVars == <<features, incidence_arrays, apc, aerr, graph>>
vars == <<body, entity_mapper, next_, mate, coedge_to_edge, coedge_to_face,
          pc, err, result, features, incidence_arrays, apc, aerr, graph>>

----------------------------------------------------------------------------
\* Helpers on sequences.

RECURSIVE Flatten(_)
Flatten(ws) == IF ws = <<>> THEN <<>> ELSE Head(ws) \o Flatten(Tail(ws))

Range(s) == {s[i] : i \in 1..Len(s)}

RECURSIVE Sum(_)
Sum(s) == IF s = <<>> THEN 0 ELSE Head(s) + Sum(Tail(s))

\* The elements of s in the order of their first occurrence.
RECURSIVE FirstOccurrences(_)
FirstOccurrences(s) ==
    IF s = <<>> THEN <<>>
    ELSE LET front == FirstOccurrences(SubSeq(s, 1, Len(s) - 1))
             last == s[Len(s)]
         IN IF last \in Range(front) THEN front ELSE Append(front, last)

----------------------------------------------------------------------------
\* The entities of a body and the entity mapper.
\*   body.wires      body.wires(): a sequence of wires, each the sequence of
\*                   coedge objects of wire.ordered_edges()
\*   body.owner      owner[k]: the id of the face wire k belongs to, NumFaces
\*                   if it belongs to none
\*   entity_mapper.oriented_edge_map   the coedge objects of the map, by id
\*   entity_mapper.spare   the number of edges of edge_map that lie on no wire
\*                   (they come first in edge_map)
\*   entity_mapper.skew    the skewed edge object, NoSkew if none

EdgeObjs == 0..MaxUses
Coedges == EdgeObjs \X {0, 1}
NoSkew == MaxUses + 1

\* coedge.reversed_edge()
reversed_edge(t) == <<t[1], 1 - t[2]>>

\* len(entity_mapper.oriented_edge_map)
CoedgesNum(em) == Len(em.oriented_edge_map)

\* entity_mapper.oriented_edge_exists(coedge)
oriented_edge_exists(em, t) == t \in Range(em.oriented_edge_map)

\* entity_mapper.oriented_edge_index(coedge), for a coedge of the map
oriented_edge_index(em, t) ==
    (CHOOSE i \in 1..Len(em.oriented_edge_map) : em.oriented_edge_map[i] = t) - 1

\* len(entity_mapper.edge_map): the spare edges and the edges of the coedges.
EdgesNum(em) ==
    em.spare + Cardinality({em.oriented_edge_map[i][1] :
                               i \in 1..Len(em.oriented_edge_map)})

\* len(entity_mapper.face_map)
FacesNum == NumFaces

\* entity_mapper.edge_index(coedge): the id of the underlying edge, whatever
\* the orientation; the reversed coedge of the skewed edge reports the id of
\* the next edge.
edge_index(em, t) ==
    IF t[1] = em.skew /\ t[2] = 1
    THEN (em.spare + t[1] + 1) % EdgesNum(em)
    ELSE em.spare + t[1]

----------------------------------------------------------------------------
\* build_incidence_arrays

NoResult == [none |-> TRUE]

\* Mutant of initializer: one entry more, and no sentinel added.
initializerLonger(C) == [i \in 0..C |-> 0]

\* Lines 51-52: an array of coedges_num entries, each the sentinel coedges_num.
initializer(C) == [i \in 0..(C - 1) |-> C]

\* The named tuple IncidenceArrays (lines 30-36).
IncidenceArrays(n, m, f, e) ==
    [next |-> n, mate |-> m, coedge_to_face |-> f, coedge_to_edge |-> e]

\* Mutant of MatingIndex: a coedge without mate gets index 0.
MatingIndexDefaultZero(em, coedge, coedge_index) ==
    IF oriented_edge_exists(em, reversed_edge(coedge))
    THEN oriented_edge_index(em, reversed_edge(coedge))
    ELSE 0

\* Mutant of MatingIndex: a coedge without mate keeps the sentinel.
MatingIndexNoSelfMate(em, coedge, coedge_index) ==
    IF oriented_edge_exists(em, reversed_edge(coedge))
    THEN oriented_edge_index(em, reversed_edge(coedge))
    ELSE CoedgesNum(em)

\* Lines 70-77: the index of the mate of a coedge, itself if it has none.
MatingIndex(em, coedge, coedge_index) ==
    IF oriented_edge_exists(em, reversed_edge(coedge))
    THEN oriented_edge_index(em, reversed_edge(coedge))
    ELSE coedge_index

\* Mutant of SharesEdge: the assertion is dropped.
SharesEdgeUnchecked(em, coedge) == TRUE

\* Line 81: the condition asserted.
SharesEdge(em, coedge) ==
    edge_index(em, coedge) = edge_index(em, reversed_edge(coedge))

\* Mutant of WriteEdge: the mate is given its own index, not the edge.
WriteEdgeMateIndex(c2e, coedge_index, mating_coedge_index, edge) ==
    [[c2e EXCEPT ![coedge_index] = edge]
        EXCEPT ![mating_coedge_index] = mating_coedge_index]

\* Lines 82-83: the edge of the coedge and of its mate.
WriteEdge(c2e, coedge_index, mating_coedge_index, edge) ==
    [[c2e EXCEPT ![coedge_index] = edge] EXCEPT ![mating_coedge_index] = edge]

\* Lines 85-88: the link from the previous coedge of the wire.
Link(nxt, first, prev, coedge_index) ==
    IF first THEN nxt ELSE [nxt EXCEPT ![prev] = coedge_index]

\* Mutant of CloseLoop: the last coedge is linked to itself.
CloseLoopOnLast(nxt, prev, first_index) == [nxt EXCEPT ![prev] = prev]

\* Line 92: close the loop.
CloseLoop(nxt, prev, first_index) == [nxt EXCEPT ![prev] = first_index]

\* The loop over wire.ordered_edges() (lines 64-89) from position i of wire w
\* on, then line 92.  st holds the arrays and the exception raised, if any.
RECURSIVE WireCoedges(_, _, _, _, _, _)
WireCoedges(st, em, w, i, first_index, prev) ==
    IF i > Len(w)
    THEN [st EXCEPT !.next = CloseLoop(st.next, prev, first_index)]
    ELSE LET coedge == w[i]
             coedge_index == oriented_edge_index(em, coedge)
             edge == edge_index(em, coedge)
             mating_coedge_index == MatingIndex(em, coedge, coedge_index)
             st1 == [st EXCEPT !.mate[coedge_index] = mating_coedge_index]
         IN IF ~SharesEdge(em, coedge)
            THEN [st1 EXCEPT !.err = "AssertionError: share the edge"]
            ELSE WireCoedges(
                    [st1 EXCEPT
                       !.coedge_to_edge = WriteEdge(st1.coedge_to_edge, coedge_index,
                                                    mating_coedge_index, edge),
                       !.next = Link(st1.next, i = 1, prev, coedge_index)],
                    em, w, i + 1,
                    IF i = 1 THEN coedge_index ELSE first_index,
                    coedge_index)

\* The loop over body.wires() (lines 60-92) from wire k on.
RECURSIVE WireLoop(_, _, _, _)
WireLoop(st, em, ws, k) ==
    IF k > Len(ws) \/ st.err # "none" THEN st
    ELSE WireLoop(WireCoedges(st, em, ws[k], 1, 0, 0), em, ws, k + 1)

\* Lines 97-99: the coedges of one wire get the face id.
RECURSIVE FaceCoedges(_, _, _, _, _)
FaceCoedges(c2f, em, w, i, face_index) ==
    IF i > Len(w) THEN c2f
    ELSE FaceCoedges([c2f EXCEPT ![oriented_edge_index(em, w[i])] = face_index],
                     em, w, i + 1, face_index)

\* Mutant of FaceWires: the wires of the whole body, not those of the face.
RECURSIVE FaceWiresOfBody(_, _, _, _, _)
FaceWiresOfBody(c2f, em, b, k, face_index) ==
    IF k > Len(b.wires) THEN c2f
    ELSE FaceWiresOfBody(FaceCoedges(c2f, em, b.wires[k], 1, face_index),
                         em, b, k + 1, face_index)

\* Line 96: body.wires_from_face(face), in the order of body.wires(), from wire k on.
RECURSIVE FaceWires(_, _, _, _, _)
FaceWires(c2f, em, b, k, face_index) ==
    IF k > Len(b.wires) THEN c2f
    ELSE FaceWires(IF b.owner[k] = face_index
                   THEN FaceCoedges(c2f, em, b.wires[k], 1, face_index)
                   ELSE c2f,
                   em, b, k + 1, face_index)

\* The loop over body.faces() (lines 94-99) from face f on.
RECURSIVE FaceLoop(_, _, _, _)
FaceLoop(c2f, em, b, f) ==
    IF f >= FacesNum THEN c2f
    ELSE FaceLoop(FaceWires(c2f, em, b, 1, f), em, b, f + 1)

\* Mutant of AllBelow: the sentinel passes.
AllBelowOrEqual(a, C) == \A i \in DOMAIN a : a[i] <= C

\* np.all(a < coedges_num)
AllBelow(a, C) == \A i \in DOMAIN a : a[i] < C

\* Mutant of Validation: a face id is held against the number of faces.
ValidationByKind(n, m, c2f, c2e, C) ==
    IF ~AllBelow(n, C) THEN "AssertionError: next"
    ELSE IF ~AllBelow(m, C) THEN "AssertionError: mate"
    ELSE IF ~AllBelow(c2f, FacesNum) THEN "AssertionError: coedge_to_face"
    ELSE IF ~AllBelow(c2e, C) THEN "AssertionError: coedge_to_edge"
    ELSE "none"

\* Lines 101-104: the message of the first assertion that fails, "none" if none does.
Validation(n, m, c2f, c2e, C) ==
    IF ~AllBelow(n, C) THEN "AssertionError: next"
    ELSE IF ~AllBelow(m, C) THEN "AssertionError: mate"
    ELSE IF ~AllBelow(c2f, C) THEN "AssertionError: coedge_to_face"
    ELSE IF ~AllBelow(c2e, C) THEN "AssertionError: coedge_to_edge"
    ELSE "none"

----------------------------------------------------------------------------
\* simple_edge (configurations.py).  An array is a function on 0..(n - 1); a
\* feature matrix is given by the number of its rows.  incidence_arrays is an
\* object with named attributes: reading an attribute it has not raises
\* AttributeError; indexing an array beyond its end raises IndexError.

ArrLen(a) == Cardinality(DOMAIN a)

\* np.arange(n) + offset
Arange(n, offset) == [i \in 0..(n - 1) |-> i + offset]

\* An object as tests/configurations_test.py passes it: the attributes
\* simple_edge reads.
CoedgeToArrays(n, m, f, e) ==
    [coedge_to_next |-> n, coedge_to_mate |-> m, coedge_to_face |-> f,
     coedge_to_edge |-> e]

HasAttr(obj, names) == names \subseteq DOMAIN obj

Raise(st, e) == [st EXCEPT !.err = e]

\* Mutant of _add_undirect_edge: the way back comes first.
_add_undirect_edgeBackFirst(from_, to_, edges) ==
    edges \o <<<<to_, from_>>, <<from_, to_>>>>

\* Lines 154-156.
_add_undirect_edge(from_, to_, edges) == edges \o <<<<from_, to_>>, <<to_, from_>>>>

\* Lines 106-110: _f, from coedge_ix on.
RECURSIVE _f(_, _, _, _, _)
_f(coedge_to_face_, coedge_to_node, face_to_node, st, coedge_ix) ==
    IF coedge_ix >= ArrLen(coedge_to_face_) THEN st
    ELSE IF coedge_ix \notin DOMAIN coedge_to_node THEN Raise(st, "IndexError")
    ELSE IF coedge_to_face_[coedge_ix] \notin DOMAIN face_to_node
         THEN Raise(st, "IndexError")
    ELSE _f(coedge_to_face_, coedge_to_node, face_to_node,
           [st EXCEPT !.edges = _add_undirect_edge(coedge_to_node[coedge_ix],
                                    face_to_node[coedge_to_face_[coedge_ix]], @)],
           coedge_ix + 1)

\* Lines 116-120: _mf, from coedge_ix on.
RECURSIVE _mf(_, _, _, _, _, _)
_mf(coedge_to_mate, coedge_to_face_, coedge_to_node, face_to_node, st, coedge_ix) ==
    IF coedge_ix >= ArrLen(coedge_to_face_) THEN st
    ELSE IF coedge_ix \notin DOMAIN coedge_to_node THEN Raise(st, "IndexError")
    ELSE IF coedge_ix \notin DOMAIN coedge_to_mate THEN Raise(st, "IndexError")
    ELSE IF coedge_to_mate[coedge_ix] \notin DOMAIN coedge_to_face_
         THEN Raise(st, "IndexError")
    ELSE IF coedge_to_face_[coedge_to_mate[coedge_ix]] \notin DOMAIN face_to_node
         THEN Raise(st, "IndexError")
    ELSE _mf(coedge_to_mate, coedge_to_face_, coedge_to_node, face_to_node,
            [st EXCEPT !.edges = _add_undirect_edge(coedge_to_node[coedge_ix],
                        face_to_node[coedge_to_face_[coedge_to_mate[coedge_ix]]], @)],
            coedge_ix + 1)

\* Lines 126-130: _e, from coedge_ix on.
RECURSIVE _e(_, _, _, _, _)
_e(coedge_to_edge_, coedge_to_node, edge_to_node, st, coedge_ix) ==
    IF coedge_ix >= ArrLen(coedge_to_edge_) THEN st
    ELSE IF coedge_ix \notin DOMAIN coedge_to_node THEN Raise(st, "IndexError")
    ELSE IF coedge_to_edge_[coedge_ix] \notin DOMAIN edge_to_node
         THEN Raise(st, "IndexError")
    ELSE _e(coedge_to_edge_, coedge_to_node, edge_to_node,
           [st EXCEPT !.edges = _add_undirect_edge(coedge_to_node[coedge_ix],
                                    edge_to_node[coedge_to_edge_[coedge_ix]], @)],
           coedge_ix + 1)

\* Lines 136-140: _i, from position k of coedges_to_coedges on.
RECURSIVE _i(_, _, _, _)
_i(coedges_to_coedges, coedge_to_node, st, k) ==
    IF k >= ArrLen(coedges_to_coedges) THEN st
    ELSE IF coedges_to_coedges[k] \notin DOMAIN coedge_to_node
         THEN Raise(st, "IndexError")
    ELSE _i(coedges_to_coedges, coedge_to_node,
            [st EXCEPT !.edges = Append(@, <<coedge_to_node[coedges_to_coedges[k]],
                                            coedge_to_node[coedges_to_coedges[k]]>>)],
            k + 1)

\* Lines 145-151: _m, from coedge_ix on.
RECURSIVE _m(_, _, _, _)
_m(coedge_to_mate, coedge_to_node, st, coedge_ix) ==
    IF coedge_ix >= ArrLen(coedge_to_mate) THEN st
    ELSE IF coedge_ix \notin DOMAIN coedge_to_node THEN Raise(st, "IndexError")
    ELSE IF coedge_to_mate[coedge_ix] \notin DOMAIN coedge_to_node
         THEN Raise(st, "IndexError")
    ELSE _m(coedge_to_mate, coedge_to_node,
            [st EXCEPT !.edges = Append(@, <<coedge_to_node[coedge_ix],
                                            coedge_to_node[coedge_to_mate[coedge_ix]]>>)],
            coedge_ix + 1)

\* Mutant of CoedgeToNode: the offset is one too many.
CoedgeToNodeOffByOne(faces_num, edges_num, coedges_num) ==
    Arange(coedges_num, faces_num + edges_num + 1)

\* Lines 58-60: the node of a face, of an edge, of a coedge.
FaceToNode(faces_num) == Arange(faces_num, 0)
EdgeToNode(faces_num, edges_num) == Arange(edges_num, faces_num)
CoedgeToNode(faces_num, edges_num, coedges_num) ==
    Arange(coedges_num, faces_num + edges_num)

\* Lines 80-94: _create_graph.
_create_graph(face_features, edge_features, coedge_features, edges) ==
    [face_features |-> face_features,
     edge_features |-> edge_features,
     coedge_features |-> coedge_features,
     senders |-> [k \in 1..Len(edges) |-> edges[k][1]],
     receivers |-> [k \in 1..Len(edges) |-> edges[k][2]]]

\* Lines 54-73: simple_edge up to the call of _create_graph: the list edges, or
\* the exception raised on the way.
simple_edge(face_features, edge_features, coedge_features, ia) ==
    LET face_to_node == FaceToNode(face_features)
        edge_to_node == EdgeToNode(face_features, edge_features)
        coedge_to_node == CoedgeToNode(face_features, edge_features, coedge_features)
        s0 == [err |-> "none", edges |-> <<>>]
        s1 == IF ~HasAttr(ia, {"coedge_to_face"}) THEN Raise(s0, "AttributeError")
              ELSE _f(ia.coedge_to_face, coedge_to_node, face_to_node, s0, 0)
        s2 == IF s1.err # "none" THEN s1
              ELSE IF ~HasAttr(ia, {"coedge_to_mate", "coedge_to_face"})
                   THEN Raise(s1, "AttributeError")
              ELSE _mf(ia.coedge_to_mate, ia.coedge_to_face, coedge_to_node,
                      face_to_node, s1, 0)
        s3 == IF s2.err # "none" THEN s2
              ELSE IF ~HasAttr(ia, {"coedge_to_edge"}) THEN Raise(s2, "AttributeError")
              ELSE _e(ia.coedge_to_edge, coedge_to_node, edge_to_node, s2, 0)
        s4 == IF s3.err # "none" THEN s3
              ELSE _i(Arange(coedge_features, 0), coedge_to_node, s3, 0)
        s5 == IF s4.err # "none" THEN s4
              ELSE IF ~HasAttr(ia, {"coedge_to_mate"}) THEN Raise(s4, "AttributeError")
              ELSE _m(ia.coedge_to_mate, coedge_to_node, s4, 0)
    IN s5

----------------------------------------------------------------------------
\* The feature matrices (features.py).  A matrix is the sequence of its rows.
\* simple_edge reads only the shape of a feature matrix, so the model keeps
\* the shape: features.faces, features.edges and features.coedges are the
\* numbers of rows, features.widths the three widths.

\* The lengths of the vectors features_from_face, features_from_edge and
\* features_from_coedge return.
FaceWidth == 13
EdgeWidth == 17
CoedgeWidth == 1

\* The widths of the feature matrices of features.py, and those of the
\* matrices tests/configurations_test.py passes.
BodyWidths == <<FaceWidth, EdgeWidth, CoedgeWidth>>
TestWidths == <<1, 1, 1>>

\* np.zeros((rows, width))
Zeros(rows, width) == [r \in 1..rows |-> [k \in 1..width |-> 0]]

\* A feature matrix of the shape (rows, width); the entries, which no code of
\* the model reads, are 1.
FeatureMatrix(rows, width) == [r \in 1..rows |-> [k \in 1..width |-> 1]]

\* Row by row, the matrices of one block row of np.block side by side.
HStack(a, b) == [r \in 1..Len(a) |-> a[r] \o b[r]]

\* Lines 46-64 of features.py: the block matrix of the three feature matrices,
\* of the widths wf, we and wc.
features_from_body(face_features, edge_features, coedge_features, wf, we, wc) ==
    HStack(face_features, Zeros(Len(face_features), we + wc))
    \o HStack(HStack(Zeros(Len(edge_features), wf), edge_features),
               Zeros(Len(edge_features), wc))
    \o HStack(Zeros(Len(coedge_features), wf + we), coedge_features)

----------------------------------------------------------------------------
\* The bodies and mappers of the model.

\* Edge objects are named in the order in which the wires first meet them, and
\* the orientation under which an edge is first met is named 0.
Canonical(s) ==
    \A i \in 1..Len(s) :
        LET before == {s[j][1] : j \in 1..(i - 1)}
        IN \/ s[i][1] \in before
           \/ s[i][1] = Cardinality(before) /\ s[i][2] = 0

\* The sequences of n coedge objects that name them so.
RECURSIVE CanonicalSeqs(_)
CanonicalSeqs(n) ==
    IF n = 0 THEN {<<>>}
    ELSE {s \in {Append(p, t) : p \in CanonicalSeqs(n - 1), t \in Coedges} :
            Canonical(s)}

\* Wires of the given lengths cut out of the sequence flat.
Cut(flat, lens) ==
    [k \in 1..Len(lens) |->
        SubSeq(flat, Sum(SubSeq(lens, 1, k - 1)) + 1, Sum(SubSeq(lens, 1, k)))]

\* No coedge object comes twice in a wire.
Injective(w) == Cardinality(Range(w)) = Len(w)

\* A body of at most MaxUses coedge uses in non-empty wires, each of distinct
\* coedges (two wires may share one, as where three faces meet in an edge), whose
\* wires come face by face (those of no face last), and a mapper that knows the coedges of
\* the wires in the order the wires give them, then at most one coedge more.
\* The edge map has the edges of these coedges, after one edge that lies on no
\* wire or after none.
Init ==
    \E nw \in 0..MaxUses :
    \E lens \in [1..nw -> 1..MaxUses] :
        /\ Sum(lens) <= MaxUses
        /\ \E flat \in CanonicalSeqs(Sum(lens)) :
           \E extras \in {<<>>} \cup {<<t>> : t \in Coedges} :
              /\ Canonical(flat \o extras)
              /\ Range(extras) \cap Range(flat) = {}
              /\ \A k \in 1..nw : Injective(Cut(flat, lens)[k])
              /\ \E own \in [1..nw -> 0..NumFaces] :
                    /\ \A k \in 1..(nw - 1) : own[k] <= own[k + 1]
                    /\ \E sk \in EdgeObjs \cup {NoSkew} :
                       \E sp \in {0, 1} :
                       LET em == [oriented_edge_map |-> FirstOccurrences(flat) \o extras,
                                  spare |-> sp, skew |-> sk]
                       IN /\ sk # NoSkew =>
                               /\ sk \in {em.oriented_edge_map[i][1] :
                                            i \in 1..Len(em.oriented_edge_map)}
                               /\ EdgesNum(em) >= 2
                          /\ body = [wires |-> Cut(flat, lens), owner |-> own]
                          /\ entity_mapper = em
                          /\ next_ = initializer(CoedgesNum(em))
                          /\ mate = initializer(CoedgesNum(em))
                          /\ coedge_to_edge = initializer(CoedgesNum(em))
                          /\ coedge_to_face = initializer(CoedgesNum(em))
                          /\ pc = "wires"
                          /\ err = "none"
                          /\ result = NoResult
                          /\ features = NoResult
                          /\ incidence_arrays = NoResult
                          /\ apc = "idle"
                          /\ aerr = "none"
                          /\ graph = NoResult

\* Lines 60-92: the pass over the wires.
WirePass ==
    /\ pc = "wires"
    /\ LET st == WireLoop([next |-> next_, mate |-> mate,
                           coedge_to_edge |-> coedge_to_edge, err |-> "none"],
                          entity_mapper, body.wires, 1)
       IN /\ next_' = st.next
          /\ mate' = st.mate
          /\ coedge_to_edge' = st.coedge_to_edge
          /\ err' = st.err
          /\ pc' = IF st.err = "none" THEN "faces" ELSE "failed"
    /\ UNCHANGED <<body, entity_mapper, coedge_to_face, result>>
    /\ UNCHANGED asmVars

\* Lines 94-99: the pass over the faces.
FacePass ==
    /\ pc = "faces"
    /\ coedge_to_face' = FaceLoop(coedge_to_face, entity_mapper, body, 0)
    /\ pc' = "validate"
    /\ UNCHANGED <<body, entity_mapper, next_, mate, coedge_to_edge, err, result>>
    /\ UNCHANGED asmVars

\* Lines 101-109: the validation and the return.
Validate ==
    /\ pc = "validate"
    /\ LET v == Validation(next_, mate, coedge_to_face, coedge_to_edge,
                           CoedgesNum(entity_mapper))
       IN \/ /\ v # "none"
             /\ err' = v
             /\ pc' = "failed"
             /\ UNCHANGED result
          \/ /\ v = "none"
             /\ result' = IncidenceArrays(next_, mate, coedge_to_face, coedge_to_edge)
             /\ pc' = "returned"
             /\ UNCHANGED err
    /\ UNCHANGED <<body, entity_mapper, next_, mate, coedge_to_edge, coedge_to_face>>
    /\ UNCHANGED asmVars

\* The arrays build_incidence_arrays returned are given to simple_edge, with
\* feature matrices of one row for each face, edge and coedge of the mapper.
Assemble ==
    /\ pc = "returned"
    /\ apc = "idle"
    /\ features' = [faces |-> FacesNum, edges |-> EdgesNum(entity_mapper),
                    coedges |-> CoedgesNum(entity_mapper), widths |-> BodyWidths]
    /\ incidence_arrays' = result
    /\ apc' = "called"
    /\ UNCHANGED <<aerr, graph>>
    /\ UNCHANGED buildVars

\* simple_edge, lines 54-73, and _create_graph.
SimpleEdge ==
    /\ apc = "called"
    /\ LET st == simple_edge(features.faces, features.edges, features.coedges,
                             incidence_arrays)
       IN /\ aerr' = st.err
          /\ apc' = IF st.err = "none" THEN "returned" ELSE "failed"
          /\ graph' = IF st.err = "none"
                      THEN _create_graph(features.faces, features.edges,
                                        features.coedges, st.edges)
                      ELSE NoResult
    /\ UNCHANGED <<features, incidence_arrays>>
    /\ UNCHANGED buildVars

Next == WirePass \/ FacePass \/ Validate \/ Assemble \/ SimpleEdge

Spec == Init /\ [][Next]_vars

\* simple_edge on its own: feature matrices of at most MaxRows rows and
\* incidence arrays of a common length, the number of coedge rows or one off,
\* whose entries are ids of the faces, edges and coedges there are (0 where
\* there is none), but for at most one entry, the last of one array, which is
\* the count.  The object is an IncidenceArrays or has the attributes of
\* CoedgeToArrays.
FaceIds(n) == IF n = 0 THEN {0} ELSE 0..(n - 1)

Spoil(a, spoiled, count) ==
    IF spoiled /\ ArrLen(a) > 0 THEN [a EXCEPT ![ArrLen(a) - 1] = count] ELSE a

AsmInit ==
    \E faces_num \in 0..MaxRows :
    \E edges_num \in 0..MaxRows :
    \E coedges_num \in 0..MaxRows :
    \E len \in {n \in 0..MaxRows : n - coedges_num \in {-1, 0, 1}} :
    \E m \in [0..(len - 1) -> FaceIds(len)] :
    \E c2f \in [0..(len - 1) -> FaceIds(faces_num)] :
    \E c2e \in [0..(len - 1) -> FaceIds(edges_num)] :
    \E spoiled \in {"none", "mate", "face", "edge"} :
    \E named \in BOOLEAN :
    \E widths \in {TestWidths, BodyWidths} :
        /\ spoiled # "none" => len > 0
        /\ named => spoiled = "none" /\ len = coedges_num
        /\ features = [faces |-> faces_num, edges |-> edges_num,
                       coedges |-> coedges_num, widths |-> widths]
        /\ LET ms == Spoil(m, spoiled = "mate", len)
               fs == Spoil(c2f, spoiled = "face", faces_num)
               es == Spoil(c2e, spoiled = "edge", edges_num)
           IN incidence_arrays = IF named THEN IncidenceArrays(ms, ms, fs, es)
                                 ELSE CoedgeToArrays(ms, ms, fs, es)
        /\ apc = "called"
        /\ aerr = "none"
        /\ graph = NoResult
        /\ body = NoResult
        /\ entity_mapper = NoResult
        /\ next_ = <<>>
        /\ mate = <<>>
        /\ coedge_to_edge = <<>>
        /\ coedge_to_face = <<>>
        /\ pc = "unused"
        /\ err = "none"
        /\ result = NoResult

AsmNext == SimpleEdge

SpecAsm == AsmInit /\ [][AsmNext]_vars

----------------------------------------------------------------------------
\* What the properties speak of.

Returned == pc = "returned"
Failed == pc = "failed"
CNum == CoedgesNum(entity_mapper)
CoedgeIds == 0..(CNum - 1)

\* The coedge object of an id.
CoedgeOf(c) == entity_mapper.oriented_edge_map[c + 1]

\* The wires of the body, by position.
WireIds == 1..Len(body.wires)
\* The ids of the coedges of wire k, in the order of the wire.
WireIdx(k) ==
    [i \in 1..Len(body.wires[k]) |-> oriented_edge_index(entity_mapper, body.wires[k][i])]

\* The coedge objects the wires enumerate.
Visited == Range(Flatten(body.wires))

\* The mapper reports one edge for coedge object t and for its reverse.
EdgeAgrees(t) ==
    edge_index(entity_mapper, t) = edge_index(entity_mapper, reversed_edge(t))

\* A coedge whose reverse is no coedge of the map (a degenerate pole).
IsPole(c) == ~oriented_edge_exists(entity_mapper, reversed_edge(CoedgeOf(c)))

\* The number of times the wires of the body enumerate coedge object t.
Uses(t) ==
    LET flat == Flatten(body.wires)
    IN Cardinality({i \in 1..Len(flat) : flat[i] = t})

\* nxt applied j times to c.
RECURSIVE Iter(_, _, _)
Iter(nxt, c, j) == IF j = 0 THEN c ELSE Iter(nxt, nxt[c], j - 1)

\* Following nxt from any coedge of wire k goes through the coedges of the wire
\* in its order and is back at the start after Len(wire) steps, not before.
WireCycle(nxt, k) ==
    LET ix == WireIdx(k)
        n == Len(ix)
    IN \A i \in 1..n :
          /\ \A j \in 0..n : Iter(nxt, ix[i], j) = ix[((i - 1 + j) % n) + 1]
          /\ \A j \in 1..(n - 1) : Iter(nxt, ix[i], j) # ix[i]

----------------------------------------------------------------------------
\* C1: whenever build_incidence_arrays returns, no sentinel survives: every
\* entry of next and of mate is below the number of coedges, every entry of
\* coedge_to_face below the number of faces and every entry of coedge_to_edge
\* below the number of edges.
C1_NoSentinelSurvives ==
    Returned =>
        \A c \in CoedgeIds :
            /\ result.next[c] < CNum
            /\ result.mate[c] < CNum
            /\ result.coedge_to_face[c] < FacesNum
            /\ result.coedge_to_edge[c] < EdgesNum(entity_mapper)

\* Arrays of two coedges or more are returned.
C1_Witness == Returned /\ CNum >= 2

\* C2: in the arrays returned, a coedge and its mate have the same edge, also
\* when an entry of coedge_to_edge is written twice (for the coedge visited and
\* as the mate of another).
C2_EdgeSharedWithMate ==
    Returned =>
        \A c \in CoedgeIds :
            result.coedge_to_edge[c] = result.coedge_to_edge[result.mate[c]]

\* Arrays are returned in which a coedge has a mate other than itself, both
\* visited by a wire: the entry of each was written twice.
C2_Witness ==
    /\ Returned
    /\ \E c \in CoedgeIds :
          /\ result.mate[c] # c
          /\ CoedgeOf(c) \in Visited
          /\ CoedgeOf(result.mate[c]) \in Visited

\* C3: in the arrays returned, mate is an involution: the mate of the mate of
\* a coedge that is not its own mate is the coedge.
C3_MateInvolution ==
    Returned =>
        \A c \in CoedgeIds :
            result.mate[c] # c => result.mate[result.mate[c]] = c

\* Arrays are returned with a mated pair and a coedge that is its own mate.
C3_Witness ==
    /\ Returned
    /\ \E c, d \in CoedgeIds : result.mate[c] # c /\ result.mate[d] = d

OtherCause ==
    \/ \E c \in CoedgeIds : CoedgeOf(c) \notin Visited
    \/ \E k \in WireIds : body.owner[k] >= FacesNum \/ body.owner[k] >= CNum
    \/ \E t \in Visited : edge_index(entity_mapper, t) >= CNum
    \/ \E t \in Visited : ~EdgeAgrees(t)

\* C5: a coedge whose reverse is no coedge of the map is its own mate and has
\* its own edge in the arrays returned, and poles alone make no failure: a
\* build that fails has another cause.
C5_PoleSelfMates ==
    /\ Returned =>
          \A c \in CoedgeIds :
              IsPole(c) =>
                  /\ result.mate[c] = c
                  /\ result.coedge_to_edge[c] = edge_index(entity_mapper, CoedgeOf(c))
    /\ Failed => OtherCause

\* Arrays are returned for a body with a pole.
C5_Witness == Returned /\ \E c \in CoedgeIds : IsPole(c)

\* An entry of the local arrays still holds the sentinel.
SentinelLeft ==
    \E c \in CoedgeIds :
        \/ next_[c] = CNum
        \/ mate[c] = CNum
        \/ coedge_to_face[c] = CNum
        \/ coedge_to_edge[c] = CNum

\* C6: build_incidence_arrays returns nothing when an entry of an array still
\* holds the sentinel after the two passes, or when a visited coedge and its
\* reverse have different edge ids: it returns only if neither is the case, and
\* a build that has not returned has no result.
C6_FailsOnSentinelOrMismatch ==
    /\ Returned =>
          /\ ~SentinelLeft
          /\ \A t \in Visited : EdgeAgrees(t)
    /\ ~Returned => result = NoResult

\* A build failed at the validation, a coedge of the map visited by no wire.
C6_Witness ==
    /\ Failed
    /\ err = "AssertionError: next"
    /\ SentinelLeft
    /\ \E c \in CoedgeIds : CoedgeOf(c) \notin Visited

\* C7: the four arrays returned have the same length, the number of coedges of
\* the map.
C7_EqualLengths ==
    Returned =>
        /\ DOMAIN result.next = CoedgeIds
        /\ DOMAIN result.mate = CoedgeIds
        /\ DOMAIN result.coedge_to_face = CoedgeIds
        /\ DOMAIN result.coedge_to_edge = CoedgeIds

\* Arrays of three coedges are returned.
C7_Witness == Returned /\ CNum = 3

----------------------------------------------------------------------------
\* What the properties of simple_edge speak of.

AsmDone == apc \in {"returned", "failed"}
FNum == features.faces
ENum == features.edges
ANum == features.coedges

\* The arrays of the object given, under either naming of its attributes.
MateOf(ia) == IF HasAttr(ia, {"mate"}) THEN ia.mate ELSE ia.coedge_to_mate
FaceOf(ia) == ia.coedge_to_face
EdgeOf(ia) == ia.coedge_to_edge

\* Valid incidence arrays over the faces, edges and coedges of the features,
\* of which there is one at least of each kind.
ValidArrays ==
    /\ FNum >= 1 /\ ENum >= 1 /\ ANum >= 1
    /\ DOMAIN MateOf(incidence_arrays) = 0..(ANum - 1)
    /\ DOMAIN FaceOf(incidence_arrays) = 0..(ANum - 1)
    /\ DOMAIN EdgeOf(incidence_arrays) = 0..(ANum - 1)
    /\ \A c \in 0..(ANum - 1) :
          /\ MateOf(incidence_arrays)[c] < ANum
          /\ FaceOf(incidence_arrays)[c] < FNum
          /\ EdgeOf(incidence_arrays)[c] < ENum

node(c) == FNum + ENum + c

\* The directed pairs of coedge c.
PairsOf(c) ==
    LET ia == incidence_arrays
    IN {<<node(c), FaceOf(ia)[c]>>, <<FaceOf(ia)[c], node(c)>>,
        <<node(c), FaceOf(ia)[MateOf(ia)[c]]>>, <<FaceOf(ia)[MateOf(ia)[c]], node(c)>>,
        <<node(c), FNum + EdgeOf(ia)[c]>>, <<FNum + EdgeOf(ia)[c], node(c)>>,
        <<node(c), node(c)>>,
        <<node(c), node(MateOf(ia)[c])>>}

\* The directed pairs of the graph returned.
Emitted == {<<graph.senders[k], graph.receivers[k]>> : k \in 1..Len(graph.senders)}

\* C8: for valid incidence arrays, simple_edge emits the pairs of every coedge
\* (face, mate face and edge both ways, the self-loop, the edge to the mate)
\* and no other pair.
C8_KernelPairs ==
    AsmDone /\ ValidArrays =>
        /\ apc = "returned"
        /\ Emitted = UNION {PairsOf(c) : c \in 0..(ANum - 1)}

\* C9: for valid incidence arrays, the graph of simple_edge has F+E+C nodes
\* and 8*C directed edges, duplicates included.
C9_NodeAndEdgeCount ==
    AsmDone /\ ValidArrays =>
        /\ apc = "returned"
        /\ graph.face_features + graph.edge_features + graph.coedge_features
              = FNum + ENum + ANum
        /\ Len(graph.senders) = 8 * ANum
        /\ Len(graph.receivers) = 8 * ANum

\* What simple_edge does for an object that has the attributes it reads: the
\* pairs and the counts of C8 and C9.
KernelGivenAttributes ==
    AsmDone /\ ValidArrays /\ HasAttr(incidence_arrays, {"coedge_to_mate"}) =>
        /\ apc = "returned"
        /\ Emitted = UNION {PairsOf(c) : c \in 0..(ANum - 1)}
        /\ Len(graph.senders) = 8 * ANum

\* simple_edge raises AttributeError for every IncidenceArrays.
IncidenceArraysRejected ==
    AsmDone /\ HasAttr(incidence_arrays, {"mate"}) =>
        apc = "failed" /\ aerr \in {"AttributeError", "IndexError"}

\* C10: whenever simple_edge returns a graph, senders and receivers have the
\* same length and every id in them is a node, below F+E+C, whatever the
\* incidence arrays.
C10_SendersReceiversInRange ==
    apc = "returned" =>
        /\ Len(graph.senders) = Len(graph.receivers)
        /\ \A k \in 1..Len(graph.senders) :
              /\ graph.senders[k] \in 0..(FNum + ENum + ANum - 1)
              /\ graph.receivers[k] \in 0..(FNum + ENum + ANum - 1)

\* A graph with edges is returned for incidence arrays shorter than the
\* coedge features.
C10_Witness ==
    /\ apc = "returned"
    /\ Len(graph.senders) > 0
    /\ ArrLen(FaceOf(incidence_arrays)) < ANum

----------------------------------------------------------------------------
\* The node feature table.

\* The table features_from_body builds of feature matrices of the shapes
\* given to simple_edge.
NodeTable ==
    features_from_body(FeatureMatrix(FNum, features.widths[1]),
                       FeatureMatrix(ENum, features.widths[2]),
                       FeatureMatrix(ANum, features.widths[3]),
                       features.widths[1], features.widths[2], features.widths[3])

\* The columns of the block of the kind row r of the table belongs to.
OwnColumns(r) ==
    LET wf == features.widths[1]
        we == features.widths[2]
        wc == features.widths[3]
    IN IF r <= FNum THEN 1..wf
       ELSE IF r <= FNum + ENum THEN (wf + 1)..(wf + we)
       ELSE (wf + we + 1)..(wf + we + wc)

\* A table of F+E+C rows of the summed width, each row zero outside the
\* block of its kind and carrying its features inside.
BlockDiagonal(t) ==
    /\ Len(t) = FNum + ENum + ANum
    /\ \A r \in 1..Len(t) :
          /\ Len(t[r]) = features.widths[1] + features.widths[2] + features.widths[3]
          /\ \A k \in 1..Len(t[r]) : (t[r][k] # 0) <=> (k \in OwnColumns(r))

\* C11: for valid incidence arrays, the graph simple_edge returns has a node
\* table of F+E+C rows (faces, edges, coedges) of the summed width, block
\* diagonal by kind.
C11_SingleNodeTable ==
    AsmDone /\ ValidArrays =>
        /\ apc = "returned"
        /\ HasAttr(graph, {"nodes"})
        /\ BlockDiagonal(graph.nodes)

\* What the code does: the graph returned carries the three feature matrices
\* as they were given and no node table; the table features_from_body builds
\* is block diagonal, but simple_edge does not call it.
GraphHasNoNodeTable ==
    AsmDone =>
        /\ apc = "returned" =>
              DOMAIN graph = {"face_features", "edge_features", "coedge_features",
                              "senders", "receivers"}
        /\ BlockDiagonal(NodeTable)

----------------------------------------------------------------------------
\* Inputs simple_edge is to refuse.

\* The lengths of the arrays of the object given.
ArrayLengths == {ArrLen(incidence_arrays[a]) : a \in DOMAIN incidence_arrays}

\* A feature matrix has no row, or an incidence array is not as long as
\* the coedge features.
EmptyOrMismatched ==
    \/ FNum = 0
    \/ ENum = 0
    \/ ANum = 0
    \/ ArrayLengths # {ANum}

\* C12: simple_edge fails and gives no graph when a feature matrix has no row
\* or an incidence array differs in length from the coedge features.
C12_FailsOnEmptyOrMismatch ==
    AsmDone /\ EmptyOrMismatched => apc = "failed" /\ graph = NoResult

\* What the code does, which has no check of its own: it fails when an array
\* is longer than the coedge features or an entry is no row of its matrix
\* (IndexError), and otherwise returns a graph, also for arrays that are
\* shorter than the coedge features and for matrices with no row.
FailsOnlyOnIndexing ==
    AsmDone /\ HasAttr(incidence_arrays, {"coedge_to_mate"}) =>
        LET ia == incidence_arrays
            len == ArrLen(FaceOf(ia))
        IN apc = "returned" <=>
              /\ len <= ANum
              /\ \A c \in 0..(len - 1) :
                    /\ MateOf(ia)[c] < len
                    /\ FaceOf(ia)[c] < FNum
                    /\ FaceOf(ia)[MateOf(ia)[c]] < FNum
                    /\ EdgeOf(ia)[c] < ENum

----------------------------------------------------------------------------
\* The order of the directed edges.

\* The pairs of each kernel by position, written out from the arrays given:
\* the pairs of _f, of _mf and of _e come two for a coedge, there and back.
FacePairs ==
    LET a == FaceOf(incidence_arrays)
    IN [k \in 1..(2 * ArrLen(a)) |->
          LET c == (k - 1) \div 2
          IN IF k % 2 = 1 THEN <<node(c), a[c]>> ELSE <<a[c], node(c)>>]

MateFacePairs ==
    LET a == FaceOf(incidence_arrays)
        m == MateOf(incidence_arrays)
    IN [k \in 1..(2 * ArrLen(a)) |->
          LET c == (k - 1) \div 2
          IN IF k % 2 = 1 THEN <<node(c), a[m[c]]>> ELSE <<a[m[c]], node(c)>>]

EdgePairs ==
    LET a == EdgeOf(incidence_arrays)
    IN [k \in 1..(2 * ArrLen(a)) |->
          LET c == (k - 1) \div 2
          IN IF k % 2 = 1 THEN <<node(c), FNum + a[c]>> ELSE <<FNum + a[c], node(c)>>]

SelfLoops == [k \in 1..ANum |-> <<node(k - 1), node(k - 1)>>]

MateEdges ==
    LET m == MateOf(incidence_arrays)
    IN [k \in 1..ArrLen(m) |-> <<node(k - 1), node(m[k - 1])>>]

\* The first and the second elements of a sequence of pairs.
Firsts(pairs) == [k \in 1..Len(pairs) |-> pairs[k][1]]
Seconds(pairs) == [k \in 1..Len(pairs) |-> pairs[k][2]]

KernelOrder == FacePairs \o MateFacePairs \o EdgePairs \o SelfLoops \o MateEdges

\* C13: the senders and receivers simple_edge returns are the sequence its
\* input fixes: the face pairs by coedge index, then the mate-face pairs, the
\* edge pairs, the self-loops and the mate edges; so two runs on the same
\* input give the same sequences.
C13_FixedOrder ==
    apc = "returned" =>
        /\ graph.senders = Firsts(KernelOrder)
        /\ graph.receivers = Seconds(KernelOrder)

\* A graph is returned for two coedges that mate with each other and lie on
\* different faces.
C13_Witness ==
    /\ apc = "returned"
    /\ ANum = 2
    /\ ArrLen(MateOf(incidence_arrays)) = 2
    /\ MateOf(incidence_arrays)[0] = 1
    /\ FaceOf(incidence_arrays)[0] # FaceOf(incidence_arrays)[1]

----------------------------------------------------------------------------
\* The mate edges of the graph.

\* The pair _m appended for coedge c: the mate edges are the last of the
\* list, one for every entry of the mate array.
MateEdgeOf(c) ==
    LET k == Len(graph.senders) - ArrLen(MateOf(incidence_arrays)) + c + 1
    IN <<graph.senders[k], graph.receivers[k]>>

\* Every mate edge goes from a coedge to its mate, and the mate edge of the
\* mate is the same edge reversed.
MateEdgesSymmetric ==
    LET m == MateOf(incidence_arrays)
    IN \A c \in DOMAIN m :
          /\ MateEdgeOf(c) = <<node(c), node(m[c])>>
          /\ m[c] \in DOMAIN m
          /\ MateEdgeOf(m[c]) = <<node(m[c]), node(c)>>

\* C14: for the arrays build_incidence_arrays returns of a body with coedges,
\* simple_edge emits the mate edge of every coedge, and with it its reverse,
\* as the mate edge of the mate.
C14_MateEdgesSymmetric ==
    Returned /\ CNum >= 1 /\ AsmDone => apc = "returned" /\ MateEdgesSymmetric

\* What _m does by itself: for an object with the attributes simple_edge
\* reads, whose mate array is an involution, the mate edges are symmetric.
MateEdgesSymmetricGivenAttributes ==
    LET m == MateOf(incidence_arrays)
    IN apc = "returned" /\ (\A c \in DOMAIN m : m[c] \in DOMAIN m /\ m[m[c]] = c)
          => MateEdgesSymmetric

----------------------------------------------------------------------------
\* The face of a coedge.

\* The wires that belong to a face.
FaceWireIds == {k \in WireIds : body.owner[k] < FacesNum}

\* The faces with a wire that enumerates coedge object t.
FacesOf(t) == {body.owner[k] : k \in {j \in FaceWireIds : t \in Range(body.wires[j])}}

\* The pass over the faces leaves next_, mate and coedge_to_edge as they are.
FacePassWritesFacesOnly ==
    [][pc = "faces" =>
          next_' = next_ /\ mate' = mate /\ coedge_to_edge' = coedge_to_edge]_vars

----------------------------------------------------------------------------
\* The final validation.

\* An entry of one of the four local arrays is not below the number of
\* coedges.
EntryNotBelowCoedges ==
    \E c \in CoedgeIds :
        \/ next_[c] >= CNum
        \/ mate[c] >= CNum
        \/ coedge_to_face[c] >= CNum
        \/ coedge_to_edge[c] >= CNum

\* C16: the validation holds every array against the number of coedges
\* only: the build fails there when an entry is not below it, be it a face
\* id or an edge id of the body, and returns the arrays otherwise.
C16_ValidatesAgainstCoedgesOnly ==
    [][pc = "validate" =>
          /\ EntryNotBelowCoedges => pc' = "failed" /\ result' = NoResult
          /\ ~EntryNotBelowCoedges =>
                /\ pc' = "returned"
                /\ result' = IncidenceArrays(next_, mate, coedge_to_face,
                                             coedge_to_edge)]_vars

\* A build failed at the validation though every coedge had been given a next,
\* a mate, an edge and a face of the body: a face id is not below the number
\* of coedges.
C16_Witness ==
    /\ Failed
    /\ err = "AssertionError: coedge_to_face"
    /\ \A c \in CoedgeIds :
          /\ FacesOf(CoedgeOf(c)) # {}
          /\ coedge_to_face[c] < FacesNum
    /\ \E c \in CoedgeIds : coedge_to_face[c] >= CNum

====
